---- MODULE Spec2Model ----
(***************************************************************************)
(* DynStepper (step navigation) and DynMenuItem (menu row / divider) of    *)
(* dynui-max, as state machines.  The props of a component are the state   *)
(* the host owns; a render computes the markup (the view) from the props;  *)
(* the event handlers and the imperative handle compute callback           *)
(* invocations from the props the last render closed over.                 *)
(*                                                                         *)
(* Indices are 0-based as in the source: step index i is steps[i + 1].     *)
(***************************************************************************)
EXTENDS Integers, Sequences, FiniteSets

VARIABLES
    current,         \* DynStepper prop: active step index (host owned)
    steps,           \* DynStepper prop: the StepData sequence (host owned)
    clickable,       \* DynStepper prop
    showConnectors,  \* DynStepper prop
    onChange,        \* DynStepper prop: TRUE iff the host supplied onChange
    view,            \* what the last render of DynStepper produced
    lastOp,          \* the last operation run on DynStepper
    effect,          \* what that operation did: onChange/goToStep calls, throw
    divider,         \* DynMenuItem prop
    disabled,        \* DynMenuItem prop
    selected,        \* DynMenuItem prop
    value,           \* DynMenuItem prop ("undefined" when absent)
    onClick,         \* DynMenuItem prop: TRUE iff the host supplied onClick
    menuView,        \* what the last render of DynMenuItem produced
    menuOp,          \* the last operation run on DynMenuItem
    clicked          \* the onClick invocations that operation made

stepperVars == <<current, steps, clickable, showConnectors, onChange, view, lastOp, effect>>
menuVars == <<divider, disabled, selected, value, onClick, menuView, menuOp, clicked>>
vars == <<current, steps, clickable, showConnectors, onChange, view, lastOp, effect,
          divider, disabled, selected, value, onClick, menuView, menuOp, clicked>>

----
(* Bounds and input sets *)

MaxSteps == 2

StepStatus == {"pending", "current", "complete", "error"}
NoStatus == "none"
Undefined == "undefined"

StepKeys == <<"k0", "k1", "k2", "k3", "k4">>
StepTitles == <<"A", "B", "C", "D", "E">>

StepData(i) ==
    [key : {StepKeys[i]}, title : {StepTitles[i]},
     status : StepStatus \cup {NoStatus}, disabled : BOOLEAN]

StepLists(n) == {s \in [1..n -> UNION {StepData(i) : i \in 1..n}] :
                    \A i \in 1..n : s[i] \in StepData(i)}

AllSteps == UNION {StepLists(n) : n \in 0..MaxSteps}

Currents == -1..MaxSteps
Indices == -1..MaxSteps
Keys == {"Enter", " ", "Tab"}
Values == {Undefined, "open", "save"}

----
(* DynStepper *)

NoEffect == [changes |-> <<>>, goTo |-> <<>>, threw |-> FALSE]
Thrown == [changes |-> <<>>, goTo |-> <<>>, threw |-> TRUE]
\* the operations: render, click(index), keydown(index, key), goToStep(index),
\* nextStep(), previousStep()
Op(name) == [op |-> name]
OpAt(name, index) == [op |-> name, index |-> index]
OpKey(name, index, key) == [op |-> name, index |-> index, key |-> key]

\* onChange?.(stepIndex, stepData)
onChangeCall(stepIndex, stepData) ==
    IF onChange THEN <<[stepIndex |-> stepIndex, stepData |-> stepData]>> ELSE <<>>

InRange(stepIndex) == stepIndex >= 0 /\ stepIndex < Len(steps)

\* steps[stepIndex]: undefined outside the array
elementAt(stepIndex) ==
    IF InRange(stepIndex)
    THEN [defined |-> TRUE, step |-> steps[stepIndex + 1]]
    ELSE [defined |-> FALSE]

\* handleStepClick that leaves out the current step (< for <=)
handleStepClickStrict(stepIndex, stepData) ==
    IF ~clickable \/ stepData.disabled THEN NoEffect
    ELSE IF stepIndex < current
         THEN [NoEffect EXCEPT !.changes = onChangeCall(stepIndex, stepData)]
         ELSE NoEffect

handleStepClick(stepIndex, stepData) ==
    IF ~clickable \/ stepData.disabled THEN NoEffect
    ELSE IF stepIndex <= current
         THEN [NoEffect EXCEPT !.changes = onChangeCall(stepIndex, stepData)]
         ELSE NoEffect

\* the body of goToStep once its guard let stepIndex through:
\* reading .disabled of undefined is a TypeError
goToTarget(stepIndex, checkDisabled) ==
    LET target == elementAt(stepIndex) IN
    IF ~target.defined THEN Thrown
    ELSE IF checkDisabled /\ target.step.disabled THEN NoEffect
    ELSE [NoEffect EXCEPT !.changes = onChangeCall(stepIndex, target.step)]

\* goToStep held to the bound of a click (stepIndex <= current)
goToStepBoundedByCurrent(stepIndex) ==
    IF stepIndex >= 0 /\ stepIndex < Len(steps) /\ stepIndex <= current
    THEN goToTarget(stepIndex, TRUE)
    ELSE NoEffect

\* goToStep without the lower range check
goToStepNoLowerBound(stepIndex) ==
    IF stepIndex < Len(steps) THEN goToTarget(stepIndex, TRUE) ELSE NoEffect

\* goToStep without the disabled check
goToStepIgnoresDisabled(stepIndex) ==
    IF stepIndex >= 0 /\ stepIndex < Len(steps)
    THEN goToTarget(stepIndex, FALSE)
    ELSE NoEffect

goToStep(stepIndex) ==
    IF stepIndex >= 0 /\ stepIndex < Len(steps)
    THEN goToTarget(stepIndex, TRUE)
    ELSE NoEffect

\* a call of goToStep, recorded in goTo
callGoToStep(stepIndex) == [goToStep(stepIndex) EXCEPT !.goTo = <<stepIndex>>]

\* nextStep whose bound is off by one (length for length - 1)
nextStepOffByOne ==
    IF current < Len(steps) THEN callGoToStep(current + 1) ELSE NoEffect

nextStep ==
    IF current < Len(steps) - 1 THEN callGoToStep(current + 1) ELSE NoEffect

previousStep ==
    IF current > 0 THEN callGoToStep(current - 1) ELSE NoEffect

\* getStepStatus that lets the position win over the override at the current step
getStepStatusCurrentWins(stepIndex, step) ==
    IF stepIndex = current THEN "current"
    ELSE IF step.status # NoStatus THEN step.status
    ELSE IF stepIndex < current THEN "complete"
    ELSE "pending"

\* step.status is undefined (falsy) when absent, else one of StepStatus
getStepStatus(stepIndex, step) ==
    IF step.status # NoStatus THEN step.status
    ELSE IF stepIndex < current THEN "complete"
    ELSE IF stepIndex = current THEN "current"
    ELSE "pending"

isClickable(index, step) == clickable /\ ~step.disabled /\ index <= current

\* connector that counts the current step as completed (<= for <)
connectorInclusive(index) ==
    IF showConnectors /\ index < Len(steps) - 1
    THEN IF index <= current THEN "completed" ELSE "plain"
    ELSE "none"

\* the connector after step index: "none" when not rendered
connector(index) ==
    IF showConnectors /\ index < Len(steps) - 1
    THEN IF index < current THEN "completed" ELSE "plain"
    ELSE "none"

\* steps[current]?.title
ariaValueText ==
    LET active == elementAt(current) IN
    IF active.defined THEN active.step.title ELSE Undefined

DynStepper ==
    [status |-> [i \in 1..Len(steps) |-> getStepStatus(i - 1, steps[i])],
     isClickable |-> [i \in 1..Len(steps) |-> isClickable(i - 1, steps[i])],
     connector |-> [i \in 1..Len(steps) |-> connector(i - 1)],
     ariaValueMin |-> 0,
     ariaValueMax |-> Len(steps) - 1,
     ariaValueNow |-> current,
     ariaValueText |-> ariaValueText]

----
(* DynMenuItem *)

\* handleClick without the disabled check
handleClickIgnoresDisabled == IF onClick THEN <<value>> ELSE <<>>

handleClick == IF ~disabled /\ onClick THEN <<value>> ELSE <<>>

handleKeyDown(key) == IF key = "Enter" \/ key = " " THEN handleClick ELSE <<>>

\* a render that ignores divider and always renders the button
DynMenuItemNoDivider ==
    [role |-> "menuitem", onClick |-> TRUE, onKeyDown |-> TRUE,
     disabled |-> disabled, ariaSelected |-> IF selected THEN "true" ELSE "false",
     dataValue |-> value]

\* onClick / onKeyDown: TRUE iff the render attached handleClick / handleKeyDown
DynMenuItem ==
    IF divider
    THEN [role |-> "separator", onClick |-> FALSE, onKeyDown |-> FALSE,
          disabled |-> FALSE, ariaSelected |-> Undefined, dataValue |-> Undefined]
    ELSE [role |-> "menuitem", onClick |-> TRUE, onKeyDown |-> TRUE,
          disabled |-> disabled, ariaSelected |-> IF selected THEN "true" ELSE "false",
          dataValue |-> value]

MenuOp(name, key) == [op |-> name, key |-> key]

----
(* Initial states.  A component is first rendered with the defaults of its     *)
(* optional props (clickable and showConnectors true, divider, disabled and    *)
(* selected false, no callbacks) and no steps; the host then supplies props.   *)

StepperDefault ==
    /\ current = 0
    /\ steps = <<>>
    /\ clickable = TRUE
    /\ showConnectors = TRUE
    /\ onChange = FALSE
    /\ view = DynStepper
    /\ lastOp = Op("render")
    /\ effect = NoEffect

MenuDefault ==
    /\ divider = FALSE
    /\ disabled = FALSE
    /\ selected = FALSE
    /\ value = Undefined
    /\ onClick = FALSE
    /\ menuView = DynMenuItem
    /\ menuOp = MenuOp("render", "")
    /\ clicked = <<>>

Init == StepperDefault /\ MenuDefault

\* A controlled host mounts DynStepper with its steps, its current and its
\* onChange handler, and from then on changes current only.
HostInit ==
    /\ current \in Currents
    /\ steps \in AllSteps
    /\ clickable \in BOOLEAN
    /\ showConnectors = TRUE
    /\ onChange = TRUE
    /\ view = DynStepper
    /\ lastOp = Op("render")
    /\ effect = NoEffect
    /\ MenuDefault

----
(* DynStepper: the host re-renders with new props *)

Rendered ==
    /\ view' = DynStepper'
    /\ lastOp' = Op("render")
    /\ effect' = NoEffect
    /\ UNCHANGED menuVars

SetCurrent(c) ==
    /\ current' = c
    /\ UNCHANGED <<steps, clickable, showConnectors, onChange>>
    /\ Rendered

SetClickable(b) ==
    /\ clickable' = b
    /\ UNCHANGED <<current, steps, showConnectors, onChange>>
    /\ Rendered

SetShowConnectors(b) ==
    /\ showConnectors' = b
    /\ UNCHANGED <<current, steps, clickable, onChange>>
    /\ Rendered

SetOnChange(b) ==
    /\ onChange' = b
    /\ UNCHANGED <<current, steps, clickable, showConnectors>>
    /\ Rendered

SetStep(i, step) ==
    /\ i \in 1..Len(steps)
    /\ steps' = [steps EXCEPT ![i] = step]
    /\ UNCHANGED <<current, clickable, showConnectors, onChange>>
    /\ Rendered

AppendStep(step) ==
    /\ Len(steps) < MaxSteps
    /\ steps' = Append(steps, step)
    /\ UNCHANGED <<current, clickable, showConnectors, onChange>>
    /\ Rendered

RemoveStep ==
    /\ Len(steps) > 0
    /\ steps' = SubSeq(steps, 1, Len(steps) - 1)
    /\ UNCHANGED <<current, clickable, showConnectors, onChange>>
    /\ Rendered

----
(* DynStepper: events on the rendered steps and the imperative handle.     *)
(* The component holds no state of its own: the props are left alone.      *)

Ran(op, eff) ==
    /\ lastOp' = op
    /\ effect' = eff
    /\ UNCHANGED <<current, steps, clickable, showConnectors, onChange, view>>
    /\ UNCHANGED menuVars

\* onClick={isClickable ? () => handleStepClick(index, step) : undefined}
clickEffect(index) ==
    IF view.isClickable[index + 1] THEN handleStepClick(index, steps[index + 1]) ELSE NoEffect

\* onKeyDown={isClickable ? (e) => {...} : undefined}
keyDownEffect(index, key) ==
    IF view.isClickable[index + 1]
    THEN IF key = "Enter" \/ key = " "
         THEN handleStepClick(index, steps[index + 1])
         ELSE NoEffect
    ELSE NoEffect

StepClick(index) ==
    /\ index \in 0..(Len(steps) - 1)
    /\ Ran(OpAt("click", index), clickEffect(index))

StepKeyDown(index, key) ==
    /\ index \in 0..(Len(steps) - 1)
    /\ Ran(OpKey("keydown", index, key), keyDownEffect(index, key))

GoToStep(stepIndex) == Ran(OpAt("goToStep", stepIndex), callGoToStep(stepIndex))

\* nextStep that keeps its own notion of current and advances it
NextStepAdvances ==
    /\ lastOp' = Op("nextStep")
    /\ effect' = nextStep
    /\ current' = IF nextStep.changes # <<>> THEN current + 1 ELSE current
    /\ UNCHANGED <<steps, clickable, showConnectors, onChange>>
    /\ view' = DynStepper'
    /\ UNCHANGED menuVars

NextStep == Ran(Op("nextStep"), nextStep)

PreviousStep == Ran(Op("previousStep"), previousStep)

\* The host re-renders DynStepper with new props.
RenderNext ==
    \/ \E c \in Currents : SetCurrent(c)
    \/ \E b \in BOOLEAN : SetClickable(b)
    \/ \E b \in BOOLEAN : SetShowConnectors(b)
    \/ \E b \in BOOLEAN : SetOnChange(b)
    \/ \E i \in 1..MaxSteps : \E step \in StepData(i) : SetStep(i, step)
    \/ \E step \in StepData(Len(steps) + 1) : AppendStep(step)
    \/ RemoveStep

RenderSpec == Init /\ [][RenderNext]_vars

\* The user and the holder of the ref operate DynStepper; the host re-renders.
Next ==
    \/ \E c \in Currents : SetCurrent(c)
    \/ \E b \in BOOLEAN : SetClickable(b)
    \/ \E b \in BOOLEAN : SetOnChange(b)
    \/ \E step \in StepData(Len(steps) + 1) : AppendStep(step)
    \/ RemoveStep
    \/ \E i \in 0..(MaxSteps - 1) : StepClick(i)
    \/ \E i \in 0..(MaxSteps - 1) : \E k \in Keys : StepKeyDown(i, k)
    \/ \E i \in Indices : GoToStep(i)
    \/ NextStep
    \/ PreviousStep

Spec == Init /\ [][Next]_vars

----
(* DynStepper under a controlled host: onChange = (index) => setCurrent(index), *)
(* so an operation that reports an index is followed by a render with it.       *)

Controlled(op, eff) ==
    /\ lastOp' = op
    /\ effect' = eff
    /\ current' = IF eff.changes # <<>> THEN eff.changes[1].stepIndex ELSE current
    /\ UNCHANGED <<steps, clickable, showConnectors, onChange>>
    /\ view' = DynStepper'
    /\ UNCHANGED menuVars

HostStepClick(index) ==
    /\ index \in 0..(Len(steps) - 1)
    /\ Controlled(OpAt("click", index), clickEffect(index))

HostStepKeyDown(index, key) ==
    /\ index \in 0..(Len(steps) - 1)
    /\ Controlled(OpKey("keydown", index, key), keyDownEffect(index, key))

HostGoToStep(stepIndex) == Controlled(OpAt("goToStep", stepIndex), callGoToStep(stepIndex))

HostNextStep == Controlled(Op("nextStep"), nextStep)

HostPreviousStep == Controlled(Op("previousStep"), previousStep)

HostNext ==
    \/ \E i \in 0..(MaxSteps - 1) : HostStepClick(i)
    \/ \E i \in 0..(MaxSteps - 1) : \E k \in Keys : HostStepKeyDown(i, k)
    \/ \E i \in Indices : HostGoToStep(i)
    \/ HostNextStep
    \/ HostPreviousStep

HostSpec == HostInit /\ [][HostNext]_vars

----
(* DynMenuItem: the host re-renders with new props; the user clicks and types *)

MenuRendered ==
    /\ menuView' = DynMenuItem'
    /\ menuOp' = MenuOp("render", "")
    /\ clicked' = <<>>
    /\ UNCHANGED stepperVars

SetDivider(b) ==
    /\ divider' = b
    /\ UNCHANGED <<disabled, selected, value, onClick>>
    /\ MenuRendered

SetDisabled(b) ==
    /\ disabled' = b
    /\ UNCHANGED <<divider, selected, value, onClick>>
    /\ MenuRendered

SetSelected(b) ==
    /\ selected' = b
    /\ UNCHANGED <<divider, disabled, value, onClick>>
    /\ MenuRendered

SetValue(v) ==
    /\ value' = v
    /\ UNCHANGED <<divider, disabled, selected, onClick>>
    /\ MenuRendered

SetOnClick(b) ==
    /\ onClick' = b
    /\ UNCHANGED <<divider, disabled, selected, value>>
    /\ MenuRendered

MenuRan(op, calls) ==
    /\ menuOp' = op
    /\ clicked' = calls
    /\ UNCHANGED <<divider, disabled, selected, value, onClick, menuView>>
    /\ UNCHANGED stepperVars

\* the click reaches handleClick only where the render attached it
MenuClick == MenuRan(MenuOp("click", ""), IF menuView.onClick THEN handleClick ELSE <<>>)

MenuKeyDown(key) ==
    MenuRan(MenuOp("keydown", key), IF menuView.onKeyDown THEN handleKeyDown(key) ELSE <<>>)

MenuNext ==
    \/ \E b \in BOOLEAN : SetDivider(b)
    \/ \E b \in BOOLEAN : SetDisabled(b)
    \/ \E b \in BOOLEAN : SetSelected(b)
    \/ \E v \in Values : SetValue(v)
    \/ \E b \in BOOLEAN : SetOnClick(b)
    \/ MenuClick
    \/ \E k \in Keys : MenuKeyDown(k)

MenuSpec == Init /\ [][MenuNext]_vars

----
(* Properties *)

StepIndices == 0..(Len(steps) - 1)
OutOfRange == current < 0 \/ current >= Len(steps)
Activation == lastOp.op = "click" \/ (lastOp.op = "keydown" /\ lastOp.key \in {"Enter", " "})
Invocation(i) == [stepIndex |-> i, stepData |-> steps[i + 1]]

\* C1: the status displayed for step i is steps[i].status when the step carries
\* an explicit status, and otherwise complete / current / pending as i is
\* before, at or after current.
StatusDerivation ==
    /\ DOMAIN view.status = 1..Len(steps)
    /\ \A i \in StepIndices :
         view.status[i + 1] =
            IF steps[i + 1].status \in StepStatus THEN steps[i + 1].status
            ELSE IF i < current THEN "complete"
            ELSE IF i = current THEN "current"
            ELSE "pending"

\* the current step shows an override, an earlier step its computed status
StatusDerivationWitness ==
    /\ Len(steps) = 2
    /\ current = 1
    /\ steps[2].status = "error"
    /\ view.status[2] = "error"
    /\ steps[1].status = NoStatus
    /\ view.status[1] = "complete"

\* C2: a click or an Enter/Space key press on step i invokes onChange(i, steps[i])
\* iff clickable, the step is not disabled and i <= current; otherwise (and for
\* any other key) onChange is not invoked, whatever the step's status.
ClickNavigability ==
    lastOp.op \in {"click", "keydown"} =>
        LET i == lastOp.index
            navigable == clickable /\ ~steps[i + 1].disabled /\ i <= current
        IN /\ ~effect.threw
           /\ effect.goTo = <<>>
           /\ (onChange /\ Activation /\ navigable) => effect.changes = <<Invocation(i)>>
           /\ ~(Activation /\ navigable) => effect.changes = <<>>
           /\ ~onChange => effect.changes = <<>>

\* Enter on the current step, which carries the override "pending", reports it
ClickNavigabilityWitness ==
    /\ lastOp.op = "keydown"
    /\ lastOp.key = "Enter"
    /\ lastOp.index = current
    /\ steps[current + 1].status = "pending"
    /\ effect.changes = <<Invocation(current)>>

\* C3: goToStep(index) invokes onChange(index, steps[index]) exactly once iff
\* 0 <= index < length and the target is not disabled, and is a silent no-op
\* otherwise, whatever current and clickable are.
GoToStepContract ==
    lastOp.op = "goToStep" =>
        LET i == lastOp.index
            valid == i >= 0 /\ i < Len(steps) /\ ~steps[i + 1].disabled
        IN /\ ~effect.threw
           /\ (onChange /\ valid) => effect.changes = <<Invocation(i)>>
           /\ ~valid => effect.changes = <<>>
           /\ ~onChange => effect.changes = <<>>

\* goToStep reaches a step after current with clickable off
GoToStepContractWitness ==
    /\ lastOp.op = "goToStep"
    /\ lastOp.index > current
    /\ lastOp.index < Len(steps)
    /\ current >= 0
    /\ ~clickable
    /\ effect.changes = <<Invocation(lastOp.index)>>

\* C4: nextStep calls goToStep(current + 1) iff current < length - 1 and
\* previousStep calls goToStep(current - 1) iff current > 0; otherwise each does
\* nothing, and onChange is never invoked with any other index.
NextPreviousContract ==
    /\ lastOp.op = "nextStep" =>
          /\ effect.goTo = IF current < Len(steps) - 1 THEN <<current + 1>> ELSE <<>>
          /\ \A k \in 1..Len(effect.changes) : effect.changes[k].stepIndex = current + 1
          /\ current = Len(steps) - 1 => effect.changes = <<>>
    /\ lastOp.op = "previousStep" =>
          /\ effect.goTo = IF current > 0 THEN <<current - 1>> ELSE <<>>
          /\ \A k \in 1..Len(effect.changes) : effect.changes[k].stepIndex = current - 1
          /\ current = 0 => effect.changes = <<>>

\* steps = [A, B], current = 0: nextStep reports (1, B)
NextPreviousContractWitness ==
    /\ Len(steps) = 2
    /\ current = 0
    /\ lastOp.op = "nextStep"
    /\ effect.goTo = <<1>>
    /\ effect.changes = <<Invocation(1)>>

\* C5: in item mode a click or an Enter/Space key press invokes onClick(value)
\* iff disabled is false; a disabled item never invokes onClick.
MenuActivation ==
    (~divider /\ menuOp.op \in {"click", "keydown"}) =>
        LET activation == menuOp.op = "click" \/ menuOp.key \in {"Enter", " "}
        IN /\ (onClick /\ activation /\ ~disabled) => clicked = <<value>>
           /\ (disabled \/ ~activation \/ ~onClick) => clicked = <<>>

\* Space on an enabled item reports its value
MenuActivationWitness ==
    /\ ~divider
    /\ ~disabled
    /\ menuOp = MenuOp("keydown", " ")
    /\ value = "save"
    /\ clicked = <<"save">>

\* C6: with divider = true the item renders a separator and no click or key
\* press invokes onClick, whatever disabled, selected and value are.
DividerInert ==
    divider =>
        /\ menuView.role = "separator"
        /\ clicked = <<>>

\* a click on the divider of an enabled item with onClick supplied
DividerInertWitness ==
    /\ divider
    /\ onClick
    /\ ~disabled
    /\ selected
    /\ menuOp.op = "click"
    /\ clicked = <<>>

\* C7 as stated: with current out of range no step is marked "current", the
\* active-step title is undefined and no operation throws.
OutOfRangeNoCurrent ==
    OutOfRange =>
        /\ \A i \in StepIndices : view.status[i + 1] # "current"
        /\ view.ariaValueText = Undefined
        /\ ~effect.threw

\* C7 amended: with current out of range no step is marked "current" unless it
\* carries the explicit status "current"; the active-step title is undefined,
\* the render produces every step and no operation throws.
OutOfRangeTolerated ==
    OutOfRange =>
        /\ DOMAIN view.status = 1..Len(steps)
        /\ \A i \in StepIndices :
              view.status[i + 1] = "current" => steps[i + 1].status = "current"
        /\ view.ariaValueText = Undefined
        /\ ~effect.threw

\* goToStep(-1) with current past the end of a non-empty sequence
OutOfRangeToleratedWitness ==
    /\ Len(steps) > 0
    /\ current >= Len(steps)
    /\ lastOp.op = "goToStep"
    /\ lastOp.index = -1
    /\ view.ariaValueText = Undefined
    /\ \A i \in StepIndices : view.status[i + 1] # "current"

\* C8: with connectors enabled a connector follows step i exactly for
\* 0 <= i < length - 1, and it is completed iff i < current, whatever the
\* explicit status of the steps.
ConnectorRule ==
    showConnectors =>
        \A i \in StepIndices :
            /\ view.connector[i + 1] # "none" <=> i < Len(steps) - 1
            /\ view.connector[i + 1] = "completed" <=> (i < Len(steps) - 1 /\ i < current)

\* the connector after a step overridden to "pending" is completed
ConnectorRuleWitness ==
    /\ showConnectors
    /\ Len(steps) = 2
    /\ current = 1
    /\ steps[1].status = "pending"
    /\ view.connector[1] = "completed"
    /\ view.connector[2] = "none"

\* C9: no click, key press, goToStep, nextStep or previousStep changes current,
\* the steps or anything derived from them, and the same operation repeated
\* makes the same onChange invocation.
Advisory ==
    [][lastOp'.op # "render" =>
          /\ UNCHANGED <<current, steps, clickable, showConnectors, onChange>>
          /\ view' = view
          /\ view' = DynStepper'
          /\ lastOp' = lastOp => effect' = effect]_vars

\* nextStep at current = 0 has reported index 1 and current is still 0
AdvisoryWitness ==
    /\ Len(steps) = 2
    /\ lastOp.op = "nextStep"
    /\ current = 0
    /\ effect.changes = <<Invocation(1)>>
    /\ view.ariaValueNow = 0
    /\ view.status[1] = "current"

HostRests == InRange(current) /\ ~steps[current + 1].disabled

\* C10: every onChange invocation carries an index in range, a step that is
\* not disabled and stepData = steps[index]; so under a host that sets current
\* to each reported index, current once in range on an enabled step stays so.
ReportsValid ==
    /\ [](\A k \in 1..Len(effect.changes) :
             LET c == effect.changes[k]
             IN /\ c.stepIndex >= 0
                /\ c.stepIndex < Len(steps)
                /\ ~steps[c.stepIndex + 1].disabled
                /\ c.stepData = steps[c.stepIndex + 1])
    /\ [][HostRests => HostRests']_vars

\* the host followed goToStep to an enabled step while another step is disabled
ReportsValidWitness ==
    /\ lastOp.op = "goToStep"
    /\ effect.changes # <<>>
    /\ current = effect.changes[1].stepIndex
    /\ HostRests
    /\ \E i \in StepIndices : steps[i + 1].disabled

====
